---- MODULE Spec2Model ----
(***************************************************************************)
(* Model of the selection algorithms (selection_algorithms.py) and of the  *)
(* containers Array, Queue, Stack, LinkedList and TreeNode                 *)
(* (datastructures.py).                                                    *)
(*                                                                         *)
(* Python lists are modelled as TLA+ sequences; Python index i is          *)
(* position i+1 of the sequence.  Each group of components has its own     *)
(* specification; the variables of the other groups stay at their idle     *)
(* value.                                                                  *)
(***************************************************************************)
EXTENDS Integers, Sequences, FiniteSets, TLC

VARIABLES
    \* selection engine
    a,            \* the list being worked on (mutated in place)
    a0,           \* the list as passed by the caller
    low, high,    \* window / range bounds
    k,            \* requested rank
    pivot_index,  \* pivot index passed to / chosen for the last _partition call
    ret,          \* value returned by the last call
    alg,          \* the function called: "det", "rnd", "part" or "mom"
    pc,           \* position of the call: "run", "done" or "raised"
    \* Array
    arr_data,     \* Array._data: the backing buffer, one slot per unit of capacity
    arr_size,     \* Array._size
    arr_last,     \* the last Array call: operation, arguments, outcome, result
    arr_pre,      \* the Array's fields before the last call
    arr_ins,      \* when the call before the last one was a successful insert:
                  \* its index and the logical sequence before it
    arr_ref,      \* reference bounded sequence
    \* Queue
    q_buf,        \* Queue._buf
    q_head,       \* Queue._head
    q_tail,       \* Queue._tail
    q_size,       \* Queue._size
    q_last,       \* the last Queue call: operation, argument, outcome, result
    q_pre,        \* the Queue's fields before the last call
    q_ref,        \* reference FIFO: the values enqueued and not yet dequeued
    \* Stack
    stk_s,        \* Stack._s
    stk_last,     \* the last Stack call: operation, argument, outcome, result
    stk_pre,      \* Stack._s before the last call
    stk_prev,     \* the operation called before the last one
    stk_ref,      \* reference LIFO, most recent push first
    \* LinkedList
    ll_head,      \* LinkedList.head: the chain of nodes, a node being the pair
                  \* <<value, next>> and None the empty tuple
    ll_last,      \* the last LinkedList call: operation, arguments, outcome
    ll_pre,       \* LinkedList.head before the last call
    ll_ref,       \* reference sequence, kept while every call is in bounds
    ll_inb,       \* whether every call so far had an in-bounds position
    \* TreeNode
    tree_children,\* TreeNode.children of every node constructed
    tree_last,    \* the last add_child call: parent and child
    \* Matrix
    mat_rows,     \* Matrix._rows: the row Arrays, each with its _data and _size
    mat_last,     \* the last Matrix call: operation, outcome, returned value
    \* which component the specification runs
    live

selVars == <<a, a0, low, high, k, pivot_index, ret, alg, pc>>
arrVars == <<arr_data, arr_size, arr_last, arr_pre, arr_ins, arr_ref>>
queVars == <<q_buf, q_head, q_tail, q_size, q_last, q_pre, q_ref>>
stkVars == <<stk_s, stk_last, stk_pre, stk_prev, stk_ref>>
lstVars == <<ll_head, ll_last, ll_pre, ll_ref, ll_inb>>
treeVars == <<tree_children, tree_last>>
matVars == <<mat_rows, mat_last>>
vars == <<selVars, arrVars, queVars, stkVars, lstVars, treeVars, matVars, live>>

----------------------------------------------------------------------------
\* Bounds of the model

\* longest list handed to the selection functions and to _partition
MaxLen == 6
\* list elements are drawn from 0..MaxVal
MaxVal == 1
\* longest list handed to _median_of_medians alone
MaxRange == 7
\* largest capacity an Array is constructed with
MaxCap == 3
\* Array elements are 0, 10, ..., 10 * MaxElem
MaxElem == 2
\* largest capacity a Queue is constructed with
MaxQCap == 3
\* Queue elements are drawn from 0..MaxQVal
MaxQVal == 2
\* deepest Stack the model builds
MaxStack == 4
\* longest LinkedList the model builds
MaxList == 4
\* LinkedList values are drawn from 0..MaxLVal
MaxLVal == 3
\* number of TreeNode objects constructed
MaxNodes == 4
\* number of add_child calls made
MaxEdges == 3
\* most rows a Matrix is constructed with
MaxRows == 1
\* most columns a Matrix is constructed with
MaxCols == 2
\* Matrix.set writes 0, 10, ..., 10 * MaxMVal
MaxMVal == 1

\* size of a median-of-medians group
GroupSize == 5

\* value of the variables of a component that a specification does not run
Idle == "idle"
SelIdle == /\ a = Idle /\ a0 = Idle /\ low = Idle /\ high = Idle /\ k = Idle
           /\ pivot_index = Idle /\ ret = Idle /\ alg = Idle /\ pc = Idle
ArrIdle == /\ arr_data = Idle /\ arr_size = Idle /\ arr_last = Idle /\ arr_pre = Idle
           /\ arr_ins = Idle /\ arr_ref = Idle
QueIdle == /\ q_buf = Idle /\ q_head = Idle /\ q_tail = Idle /\ q_size = Idle
           /\ q_last = Idle /\ q_pre = Idle /\ q_ref = Idle
StkIdle == /\ stk_s = Idle /\ stk_last = Idle /\ stk_pre = Idle /\ stk_prev = Idle
           /\ stk_ref = Idle
LstIdle == /\ ll_head = Idle /\ ll_last = Idle /\ ll_pre = Idle /\ ll_ref = Idle
           /\ ll_inb = Idle
TreeIdle == tree_children = Idle /\ tree_last = Idle
MatIdle == mat_rows = Idle /\ mat_last = Idle

Min(x, y) == IF x < y THEN x ELSE y

\* all lists over 0..v of length lo..hi
Lists(lo, hi, v) == UNION {[1..n -> 0..v] : n \in lo..hi}

----------------------------------------------------------------------------
\* selection_algorithms.py

\* a[i] = a[j]: the swap losing the value that was at i
Swap_copy(s, i, j) == [s EXCEPT ![i + 1] = s[j + 1]]

\* a[i], a[j] = a[j], a[i]
Swap(s, i, j) == [s EXCEPT ![i + 1] = s[j + 1], ![j + 1] = s[i + 1]]

\* PartitionLoop comparing with <= instead of <
RECURSIVE PartitionLoop_le(_, _, _, _, _)
PartitionLoop_le(s, i, j, hi, pivot) ==
    IF j >= hi THEN [a |-> s, i |-> i]
    ELSE IF s[j + 1] <= pivot
         THEN PartitionLoop_le(Swap(s, i, j), i + 1, j + 1, hi, pivot)
         ELSE PartitionLoop_le(s, i, j + 1, hi, pivot)

\* the for-loop of _partition: j runs from its current value to high-1
RECURSIVE PartitionLoop(_, _, _, _, _)
PartitionLoop(s, i, j, hi, pivot) ==
    IF j >= hi THEN [a |-> s, i |-> i]
    ELSE IF s[j + 1] < pivot
         THEN PartitionLoop(Swap(s, i, j), i + 1, j + 1, hi, pivot)
         ELSE PartitionLoop(s, i, j + 1, hi, pivot)

\* _partition with the scan starting at low+1 instead of low
_partition_skip_first(s, lo, hi, pidx) ==
    LET s1    == Swap(s, pidx, hi)
        pivot == s1[hi + 1]
        r     == PartitionLoop(s1, lo, lo + 1, hi, pivot)
    IN  [a |-> Swap(r.a, r.i, hi), ret |-> r.i]

\* _partition: the list after the call and the returned index
_partition(s, lo, hi, pidx) ==
    LET s1    == Swap(s, pidx, hi)
        pivot == s1[hi + 1]
        r     == PartitionLoop(s1, lo, lo, hi, pivot)
    IN  [a |-> Swap(r.a, r.i, hi), ret |-> r.i]

\* insert index x into the index list sorted by value, after every index whose
\* value is <= s[x]: list.sort(key=a.__getitem__) is stable
RECURSIVE InsertByKey(_, _, _)
InsertByKey(s, sorted, x) ==
    IF sorted = <<>> THEN <<x>>
    ELSE IF s[x + 1] < s[Head(sorted) + 1]
         THEN <<x>> \o sorted
         ELSE <<Head(sorted)>> \o InsertByKey(s, Tail(sorted), x)

\* group.sort(key=a.__getitem__)
RECURSIVE SortByKey(_, _)
SortByKey(s, idxs) ==
    IF idxs = <<>> THEN <<>>
    ELSE InsertByKey(s, SortByKey(s, SubSeq(idxs, 1, Len(idxs) - 1)), idxs[Len(idxs)])

\* the median index of indices[i:i+5]
GroupMedian(s, indices, i) ==
    LET group == SortByKey(s, SubSeq(indices, i + 1, Min(i + GroupSize, Len(indices))))
    IN  group[(Len(group) \div 2) + 1]

\* for i in range(0, len(indices), 5): new_indices.append(median)
RECURSIVE GroupMedians(_, _, _)
GroupMedians(s, indices, i) ==
    IF i >= Len(indices) THEN <<>>
    ELSE <<GroupMedian(s, indices, i)>> \o GroupMedians(s, indices, i + GroupSize)

\* while len(indices) > 5: indices = new_indices
RECURSIVE Reduce(_, _)
Reduce(s, indices) ==
    IF Len(indices) > GroupSize THEN Reduce(s, GroupMedians(s, indices, 0))
    ELSE indices

\* _median_of_medians gathering the indices 0..high-low instead of low..high
_median_of_medians_rel(s, lo, hi) ==
    LET indices == SortByKey(s, Reduce(s, [i \in 1..(hi - lo + 1) |-> i - 1]))
    IN  indices[(Len(indices) \div 2) + 1]

\* _median_of_medians for a non-empty range
_median_of_medians(s, lo, hi) ==
    LET indices == SortByKey(s, Reduce(s, [i \in 1..(hi - lo + 1) |-> lo + i - 1]))
    IN  indices[(Len(indices) \div 2) + 1]

\* the loop body narrowing to [low, p] instead of [low, p-1]
Narrow_keep_pivot(pidx) ==
    LET r == _partition(a, low, high, pidx)
        p == r.ret
    IN  /\ a' = r.a
        /\ pivot_index' = p
        /\ IF k = p
           THEN /\ ret' = r.a[k + 1]
                /\ pc' = "done"
                /\ UNCHANGED <<low, high>>
           ELSE IF k < p
           THEN /\ high' = p
                /\ UNCHANGED <<low, ret, pc>>
           ELSE /\ low' = p + 1
                /\ UNCHANGED <<high, ret, pc>>

\* the loop body narrowing to the side that does not hold index k
Narrow_wrong_side(pidx) ==
    LET r == _partition(a, low, high, pidx)
        p == r.ret
    IN  /\ a' = r.a
        /\ pivot_index' = p
        /\ IF k = p
           THEN /\ ret' = r.a[k + 1]
                /\ pc' = "done"
                /\ UNCHANGED <<low, high>>
           ELSE IF k < p
           THEN /\ low' = p + 1
                /\ UNCHANGED <<high, ret, pc>>
           ELSE /\ high' = p - 1
                /\ UNCHANGED <<low, ret, pc>>

\* the body of the while-loop shared by both selection functions, once the
\* pivot index has been chosen
Narrow(pidx) ==
    LET r == _partition(a, low, high, pidx)
        p == r.ret
    IN  /\ a' = r.a
        /\ pivot_index' = p
        /\ IF k = p
           THEN /\ ret' = r.a[k + 1]
                /\ pc' = "done"
                /\ UNCHANGED <<low, high>>
           ELSE IF k < p
           THEN /\ high' = p - 1
                /\ UNCHANGED <<low, ret, pc>>
           ELSE /\ low' = p + 1
                /\ UNCHANGED <<high, ret, pc>>

\* one iteration of select_deterministic's loop
DetIter ==
    /\ alg = "det"
    /\ pc = "run"
    /\ IF low = high
       THEN /\ ret' = a[low + 1]
            /\ pc' = "done"
            /\ UNCHANGED <<a, low, high, pivot_index>>
       ELSE IF low > high
       \* indices is empty: indices[0] raises IndexError
       THEN /\ pc' = "raised"
            /\ UNCHANGED <<a, low, high, pivot_index, ret>>
       ELSE Narrow(_median_of_medians(a, low, high))
    /\ UNCHANGED <<a0, k, alg>>
    /\ UNCHANGED <<arrVars, queVars, stkVars, lstVars, treeVars, matVars, live>>

\* one iteration of randomized_quickselect's loop
RndIter ==
    /\ alg = "rnd"
    /\ pc = "run"
    /\ IF low = high
       THEN /\ ret' = a[low + 1]
            /\ pc' = "done"
            /\ UNCHANGED <<a, low, high, pivot_index>>
       ELSE IF low > high
       \* random.randint(low, high) raises ValueError on an empty range
       THEN /\ pc' = "raised"
            /\ UNCHANGED <<a, low, high, pivot_index, ret>>
       ELSE \E r \in low..high : Narrow(r)
    /\ UNCHANGED <<a0, k, alg>>
    /\ UNCHANGED <<arrVars, queVars, stkVars, lstVars, treeVars, matVars, live>>

\* a caller passes a non-empty list and a rank; rank len(a) is the one
\* out-of-range rank the model tries
InitSelect ==
    /\ a0 \in Lists(1, MaxLen, MaxVal)
    /\ a = a0
    /\ k \in 0..Len(a0)
    /\ low = 0
    /\ high = Len(a0) - 1
    /\ pivot_index = -1
    /\ ret = -1
    /\ alg \in {"det", "rnd"}
    /\ pc = "run"
    /\ ArrIdle /\ QueIdle /\ StkIdle /\ LstIdle /\ TreeIdle /\ MatIdle
    /\ live = "sel"

NextSelect == DetIter \/ RndIter

SpecSelect == InitSelect /\ [][NextSelect]_vars

\* a call _partition(a, low, high, pivot_index) with low <= pivot_index <= high
\* inside the list
PartitionCall ==
    /\ alg = "part"
    /\ pc = "run"
    /\ LET r == _partition(a, low, high, pivot_index)
       IN  /\ a' = r.a
           /\ ret' = r.ret
    /\ pc' = "done"
    /\ UNCHANGED <<a0, low, high, k, pivot_index, alg>>
    /\ UNCHANGED <<arrVars, queVars, stkVars, lstVars, treeVars, matVars, live>>

InitPartition ==
    /\ a0 \in Lists(1, MaxLen, MaxVal)
    /\ a = a0
    /\ low \in 0..(Len(a0) - 1)
    /\ high \in low..(Len(a0) - 1)
    /\ pivot_index \in low..high
    /\ k = 0
    /\ ret = -1
    /\ alg = "part"
    /\ pc = "run"
    /\ ArrIdle /\ QueIdle /\ StkIdle /\ LstIdle /\ TreeIdle /\ MatIdle
    /\ live = "sel"

NextPartition == PartitionCall

SpecPartition == InitPartition /\ [][NextPartition]_vars

\* a call _median_of_medians(a, low, high) on a non-empty range of the list
MomCall ==
    /\ alg = "mom"
    /\ pc = "run"
    /\ ret' = _median_of_medians(a, low, high)
    /\ pc' = "done"
    /\ UNCHANGED <<a, a0, low, high, k, pivot_index, alg>>
    /\ UNCHANGED <<arrVars, queVars, stkVars, lstVars, treeVars, matVars, live>>

InitMom ==
    /\ a0 \in Lists(1, MaxRange, MaxVal)
    /\ a = a0
    /\ low \in 0..(Len(a0) - 1)
    /\ high \in low..(Len(a0) - 1)
    /\ pivot_index = -1
    /\ k = 0
    /\ ret = -1
    /\ alg = "mom"
    /\ pc = "run"
    /\ ArrIdle /\ QueIdle /\ StkIdle /\ LstIdle /\ TreeIdle /\ MatIdle
    /\ live = "sel"

NextMom == MomCall

SpecMom == InitMom /\ [][NextMom]_vars

\* the three entry points of selection_algorithms.py together
InitSelection == InitSelect \/ InitPartition \/ InitMom

NextSelection == NextSelect \/ NextPartition \/ NextMom

SpecSelection == InitSelection /\ [][NextSelection]_vars

----------------------------------------------------------------------------
\* Properties of the selection engine

\* the value at index k of sorted(s): fewer than k+1 elements are smaller,
\* more than k elements are smaller or equal
KthSmallest(s, kk) ==
    CHOOSE v \in {s[i] : i \in 1..Len(s)} :
        /\ Cardinality({i \in 1..Len(s) : s[i] < v}) <= kk
        /\ Cardinality({i \in 1..Len(s) : s[i] <= v}) > kk

ValidRank == 0 <= k /\ k < Len(a0)

\* C1: for every non-empty list and every valid k, select_deterministic and
\* randomized_quickselect (whatever the random pivots) return the value at
\* index k of the sorted copy of the list passed in.
C1_OrderStatistic ==
    (alg \in {"det", "rnd"} /\ pc = "done" /\ ValidRank)
        => ret = KthSmallest(a0, k)

\* a deterministic selection on a 6-element list with duplicates that went
\* through the group reduction, rearranged the list and returned
C1_Witness ==
    /\ alg = "det" /\ pc = "done" /\ ValidRank
    /\ Len(a0) = 6 /\ a # a0 /\ k = 3
    /\ ret = KthSmallest(a0, k)

\* C2: _partition returns p in [low, high] with a[p] the former pivot value,
\* a[low..p-1] strictly smaller than a[p] and a[p..high] at least a[p].
C2_PartitionPost ==
    (alg = "part" /\ pc = "done") =>
        /\ low <= ret /\ ret <= high
        /\ a[ret + 1] = a0[pivot_index + 1]
        /\ \A i \in low..(ret - 1) : a[i + 1] < a[ret + 1]
        /\ \A i \in ret..high : a[i + 1] >= a[ret + 1]

\* a partition of an inner range around an inner pivot that moved the pivot
\* and left an equal element to its right
C2_Witness ==
    /\ alg = "part" /\ pc = "done"
    /\ 0 < low /\ high < Len(a0) - 1
    /\ low < pivot_index /\ pivot_index < high
    /\ ret # pivot_index /\ low < ret /\ ret < high
    /\ \E i \in (ret + 1)..high : a[i + 1] = a[ret + 1]

\* number of elements of s[lo..hi] that are <= v, resp. >= v
CountLE(s, lo, hi, v) == Cardinality({i \in lo..hi : s[i + 1] <= v})
CountGE(s, lo, hi, v) == Cardinality({i \in lo..hi : s[i + 1] >= v})

\* C3: the index returned by _median_of_medians designates a good pivot: at
\* least 30% (rounded down) of the n elements of the range are <= it and at
\* least 30% (rounded down) are >= it.
C3_GoodPivot ==
    (alg = "mom" /\ pc = "done") =>
        LET n == high - low + 1
            v == a[ret + 1]
        IN  /\ CountLE(a, low, high, v) >= (3 * n) \div 10
            /\ CountGE(a, low, high, v) >= (3 * n) \div 10

----------------------------------------------------------------------------
\* datastructures.py: Array

\* the value None of an empty slot and of a call that returns nothing
None == -1

ArrValues == {10 * i : i \in 0..MaxElem}

\* _check_bounds accepting index == size
_check_bounds_le(size, index) == 0 <= index /\ index <= size

\* _check_bounds passes (does not raise)
_check_bounds(size, index) == 0 <= index /\ index < size

\* for i in range(self._size, index, -1): self._data[i] = self._data[i - 1]
RECURSIVE MakeRoomLoop(_, _, _)
MakeRoomLoop(data, i, index) ==
    IF i <= index THEN data
    ELSE MakeRoomLoop([data EXCEPT ![i + 1] = data[i]], i - 1, index)

\* _make_room shifting one element too few (range stops at index+1)
_make_room_short(data, size, index) == MakeRoomLoop(data, size, index + 1)

_make_room(data, size, index) == MakeRoomLoop(data, size, index)

\* for i in range(index, self._size - 1): self._data[i] = self._data[i + 1]
RECURSIVE CloseGapLoop(_, _, _)
CloseGapLoop(data, i, stop) ==
    IF i >= stop THEN data
    ELSE CloseGapLoop([data EXCEPT ![i + 1] = data[i + 2]], i + 1, stop)

\* _close_gap starting the shift one slot late
_close_gap_late(data, size, index) ==
    [CloseGapLoop(data, index + 1, size - 1) EXCEPT ![size] = None]

_close_gap(data, size, index) ==
    [CloseGapLoop(data, index, size - 1) EXCEPT ![size] = None]

\* Array.insert: the fields after the call and its outcome
Array_insert(data, size, index, value) ==
    IF size = Len(data)
    THEN [data |-> data, size |-> size, outcome |-> "OverflowError", ret |-> None]
    ELSE IF ~(0 <= index /\ index <= size)
    THEN [data |-> data, size |-> size, outcome |-> "IndexError", ret |-> None]
    ELSE [data |-> [_make_room(data, size, index) EXCEPT ![index + 1] = value],
          size |-> size + 1, outcome |-> "ok", ret |-> None]

\* Array.delete
Array_delete(data, size, index) ==
    IF ~_check_bounds(size, index)
    THEN [data |-> data, size |-> size, outcome |-> "IndexError", ret |-> None]
    ELSE [data |-> _close_gap(data, size, index), size |-> size - 1,
          outcome |-> "ok", ret |-> None]

\* Array.access
Array_access(data, size, index) ==
    IF ~_check_bounds(size, index)
    THEN [data |-> data, size |-> size, outcome |-> "IndexError", ret |-> None]
    ELSE [data |-> data, size |-> size, outcome |-> "ok", ret |-> data[index + 1]]

\* Array.__len__
Array_len(size) == size

\* Array.__repr__: the elements at indices 0..size-1
Array_repr(data, size) == [i \in 1..size |-> data[i]]

NoInsert == [valid |-> FALSE, index |-> 0, before |-> <<>>]

\* bookkeeping shared by the Array calls: r is the result of the call
ArrRecord(op, index, value, r) ==
    /\ arr_data' = r.data
    /\ arr_size' = r.size
    /\ arr_last' = [op |-> op, index |-> index, value |-> value,
                    outcome |-> r.outcome, ret |-> r.ret]
    /\ arr_pre' = [data |-> arr_data, size |-> arr_size]
    /\ arr_ins' = IF arr_last.op = "insert" /\ arr_last.outcome = "ok"
                  THEN [valid |-> TRUE, index |-> arr_last.index,
                        before |-> Array_repr(arr_pre.data, arr_pre.size)]
                  ELSE NoInsert
    /\ UNCHANGED <<selVars, queVars, stkVars, lstVars, treeVars, matVars, live>>

\* indices a caller tries: every valid one and one beyond each end
ArrIndices == -1..Len(arr_data)

ArrInsert ==
    /\ live = "arr"
    /\ \E index \in ArrIndices, value \in ArrValues :
        LET r == Array_insert(arr_data, arr_size, index, value)
        IN  /\ ArrRecord("insert", index, value, r)
            /\ arr_ref' = IF r.outcome = "ok"
                          THEN SubSeq(arr_ref, 1, index) \o <<value>>
                               \o SubSeq(arr_ref, index + 1, Len(arr_ref))
                          ELSE arr_ref

ArrDelete ==
    /\ live = "arr"
    /\ \E index \in ArrIndices :
        LET r == Array_delete(arr_data, arr_size, index)
        IN  /\ ArrRecord("delete", index, None, r)
            /\ arr_ref' = IF r.outcome = "ok"
                          THEN SubSeq(arr_ref, 1, index)
                               \o SubSeq(arr_ref, index + 2, Len(arr_ref))
                          ELSE arr_ref

ArrAccess ==
    /\ live = "arr"
    /\ \E index \in ArrIndices :
        LET r == Array_access(arr_data, arr_size, index)
        IN  /\ ArrRecord("access", index, None, r)
            /\ UNCHANGED arr_ref

\* Array(capacity)
InitArray ==
    /\ \E capacity \in 0..MaxCap : arr_data = [i \in 1..capacity |-> None]
    /\ arr_size = 0
    /\ arr_last = [op |-> "init", index |-> 0, value |-> None,
                   outcome |-> "ok", ret |-> None]
    /\ arr_pre = [data |-> arr_data, size |-> 0]
    /\ arr_ins = NoInsert
    /\ arr_ref = <<>>
    /\ SelIdle /\ QueIdle /\ StkIdle /\ LstIdle /\ TreeIdle /\ MatIdle
    /\ live = "arr"

NextArray == ArrInsert \/ ArrDelete \/ ArrAccess

SpecArray == InitArray /\ [][NextArray]_vars

\* C4: insert on a full Array raises OverflowError whatever the index; insert
\* on a non-full Array raises IndexError exactly when index is outside
\* [0, size]; delete and access raise IndexError exactly when index is outside
\* [0, size-1]; every other call succeeds.
C4_ArrayOutcomes ==
    LET cap  == Len(arr_pre.data)
        size == arr_pre.size
        idx  == arr_last.index
    IN  /\ arr_last.op = "insert" =>
            arr_last.outcome =
                IF size = cap THEN "OverflowError"
                ELSE IF idx < 0 \/ idx > size THEN "IndexError"
                ELSE "ok"
        /\ arr_last.op \in {"delete", "access"} =>
            arr_last.outcome =
                IF idx < 0 \/ idx > size - 1 THEN "IndexError" ELSE "ok"

\* an insert with an out-of-range index into an Array filled to capacity
C4_Witness ==
    /\ arr_last.op = "insert"
    /\ arr_pre.size = Len(arr_pre.data) /\ arr_pre.size >= 2
    /\ arr_last.index = -1
    /\ arr_last.outcome = "OverflowError"

\* C5: insert(index, v) on a non-full Array with index in [0, size], directly
\* followed by delete(index), leaves size and the elements at 0..size-1 as
\* they were before the insert.
C5_InsertDeleteNoOp ==
    (arr_last.op = "delete" /\ arr_ins.valid /\ arr_ins.index = arr_last.index)
        => /\ arr_last.outcome = "ok"
           /\ Array_repr(arr_data, arr_size) = arr_ins.before

\* an insert in the middle of a 2-element Array followed by delete there
C5_Witness ==
    /\ arr_last.op = "delete" /\ arr_last.outcome = "ok"
    /\ arr_ins.valid /\ arr_ins.index = arr_last.index
    /\ arr_last.index = 1
    /\ Len(arr_ins.before) = 2 /\ arr_ins.before[1] # arr_ins.before[2]
    /\ Array_repr(arr_data, arr_size) = arr_ins.before

\* C6: the Array agrees with the reference bounded sequence: len() is its
\* length, which never exceeds the capacity, and access(i) returns its i-th
\* element for every 0 <= i < size.
C6_ArrayRefines ==
    /\ Array_len(arr_size) = Len(arr_ref)
    /\ Len(arr_ref) <= Len(arr_data)
    /\ \A i \in 0..(Len(arr_ref) - 1) :
        LET r == Array_access(arr_data, arr_size, i)
        IN  r.outcome = "ok" /\ r.ret = arr_ref[i + 1]
    /\ (arr_last.op = "access" /\ arr_last.outcome = "ok")
        => arr_last.ret = arr_ref[arr_last.index + 1]

\* insert 0, 10, 20 at 0, 1, 2, then delete(1): the Array reads [0, 20]
C6_Witness ==
    /\ arr_last.op = "delete" /\ arr_last.index = 1 /\ arr_last.outcome = "ok"
    /\ Array_repr(arr_pre.data, arr_pre.size) = <<0, 10, 20>>
    /\ arr_ref = <<0, 20>>
    /\ Array_repr(arr_data, arr_size) = <<0, 20>>

----------------------------------------------------------------------------
\* datastructures.py: Matrix

MatValues == {10 * i : i \in 0..MaxMVal}

\* whether list[i] exists on a list of length n: a negative index counts
\* from the end, an index outside -n..n-1 raises IndexError
ListIndexOk(n, i) == -n <= i /\ i < n

\* the position list[i] designates, counted from 0
ListPos(n, i) == IF i < 0 THEN i + n ELSE i

\* for c in range(cols): r.insert(c, 0), on the row Array with the given fields
RECURSIVE FillRow(_, _, _)
FillRow(row, c, cols) ==
    IF c >= cols THEN row
    ELSE LET r == Array_insert(row.data, row.size, c, 0)
         IN  FillRow([data |-> r.data, size |-> r.size], c + 1, cols)

\* Matrix(rows, cols): rows Arrays of capacity cols, filled with zeros
Matrix_init(rows, cols) ==
    [i \in 1..rows |-> FillRow([data |-> [j \in 1..cols |-> None], size |-> 0],
                               0, cols)]

\* Matrix.set: self._rows[r]._data[c] = val, written into the backing list of
\* the row without any check of the Array
Matrix_set(rows, r, c, val) ==
    IF ~ListIndexOk(Len(rows), r)
    THEN [rows |-> rows, outcome |-> "IndexError", ret |-> None]
    ELSE LET i == ListPos(Len(rows), r) + 1
         IN  IF ~ListIndexOk(Len(rows[i].data), c)
             THEN [rows |-> rows, outcome |-> "IndexError", ret |-> None]
             ELSE [rows |-> [rows EXCEPT
                       ![i].data[ListPos(Len(rows[i].data), c) + 1] = val],
                   outcome |-> "ok", ret |-> None]

\* Matrix.get: return self._rows[r]._data[c]
Matrix_get(rows, r, c) ==
    IF ~ListIndexOk(Len(rows), r)
    THEN [rows |-> rows, outcome |-> "IndexError", ret |-> None]
    ELSE LET i == ListPos(Len(rows), r) + 1
         IN  IF ~ListIndexOk(Len(rows[i].data), c)
             THEN [rows |-> rows, outcome |-> "IndexError", ret |-> None]
             ELSE [rows |-> rows, outcome |-> "ok",
                   ret |-> rows[i].data[ListPos(Len(rows[i].data), c) + 1]]

\* Matrix.__repr__: the repr of every row
Matrix_repr(rows) == [i \in 1..Len(rows) |-> Array_repr(rows[i].data, rows[i].size)]

\* bookkeeping shared by the Matrix calls: r is the result of the call
MatRecord(op, r) ==
    /\ mat_rows' = r.rows
    /\ mat_last' = [op |-> op, outcome |-> r.outcome, ret |-> r.ret]
    /\ UNCHANGED <<selVars, arrVars, queVars, stkVars, lstVars, treeVars, live>>

\* row and column indices a caller tries: every valid one, negative ones
\* included, and one beyond each end
MatRowIndices == (-(Len(mat_rows) + 1))..Len(mat_rows)
MatColIndices == (-(MaxCols + 1))..MaxCols

MatSet ==
    /\ live = "mat"
    /\ \E r \in MatRowIndices, c \in MatColIndices, val \in MatValues :
        MatRecord("set", Matrix_set(mat_rows, r, c, val))

MatGet ==
    /\ live = "mat"
    /\ \E r \in MatRowIndices, c \in MatColIndices :
        MatRecord("get", Matrix_get(mat_rows, r, c))

InitMatrix ==
    /\ \E rows \in 0..MaxRows, cols \in 0..MaxCols :
        mat_rows = Matrix_init(rows, cols)
    /\ mat_last = [op |-> "init", outcome |-> "ok", ret |-> None]
    /\ SelIdle /\ ArrIdle /\ QueIdle /\ StkIdle /\ LstIdle /\ TreeIdle
    /\ live = "mat"

NextMatrix == MatSet \/ MatGet

SpecMatrix == InitMatrix /\ [][NextMatrix]_vars

----------------------------------------------------------------------------
\* datastructures.py: Queue

QValues == 0..MaxQVal

\* Queue.enqueue rejecting only when size exceeds a non-zero capacity
Queue_enqueue_gt(buf, head, tail, size, val) ==
    IF size > Len(buf) \/ Len(buf) = 0
    THEN [buf |-> buf, head |-> head, tail |-> tail, size |-> size,
          outcome |-> "OverflowError", ret |-> None]
    ELSE [buf |-> [buf EXCEPT ![tail + 1] = val], head |-> head,
          tail |-> (tail + 1) % Len(buf), size |-> size + 1,
          outcome |-> "ok", ret |-> None]

\* Queue.enqueue storing the value before it checks for a full queue
Queue_enqueue_write_first(buf, head, tail, size, val) ==
    IF size = Len(buf)
    THEN [buf |-> IF Len(buf) = 0 THEN buf ELSE [buf EXCEPT ![tail + 1] = val],
          head |-> head, tail |-> tail, size |-> size,
          outcome |-> "OverflowError", ret |-> None]
    ELSE [buf |-> [buf EXCEPT ![tail + 1] = val], head |-> head,
          tail |-> (tail + 1) % Len(buf), size |-> size + 1,
          outcome |-> "ok", ret |-> None]

\* Queue.enqueue: the fields after the call and its outcome
Queue_enqueue(buf, head, tail, size, val) ==
    IF size = Len(buf)
    THEN [buf |-> buf, head |-> head, tail |-> tail, size |-> size,
          outcome |-> "OverflowError", ret |-> None]
    ELSE [buf |-> [buf EXCEPT ![tail + 1] = val], head |-> head,
          tail |-> (tail + 1) % Len(buf), size |-> size + 1,
          outcome |-> "ok", ret |-> None]

\* Queue.dequeue that clears the slot but does not advance head
Queue_dequeue_stuck(buf, head, tail, size) ==
    IF size = 0
    THEN [buf |-> buf, head |-> head, tail |-> tail, size |-> size,
          outcome |-> "IndexError", ret |-> None]
    ELSE [buf |-> [buf EXCEPT ![head + 1] = None], head |-> head,
          tail |-> tail, size |-> size - 1,
          outcome |-> "ok", ret |-> buf[head + 1]]

\* Queue.dequeue leaving the dequeued value in its slot
Queue_dequeue_noclear(buf, head, tail, size) ==
    IF size = 0
    THEN [buf |-> buf, head |-> head, tail |-> tail, size |-> size,
          outcome |-> "IndexError", ret |-> None]
    ELSE [buf |-> buf,
          head |-> (head + 1) % Len(buf), tail |-> tail, size |-> size - 1,
          outcome |-> "ok", ret |-> buf[head + 1]]

\* Queue.dequeue
Queue_dequeue(buf, head, tail, size) ==
    IF size = 0
    THEN [buf |-> buf, head |-> head, tail |-> tail, size |-> size,
          outcome |-> "IndexError", ret |-> None]
    ELSE [buf |-> [buf EXCEPT ![head + 1] = None],
          head |-> (head + 1) % Len(buf), tail |-> tail, size |-> size - 1,
          outcome |-> "ok", ret |-> buf[head + 1]]

\* Queue.__len__
Queue_len(size) == size

\* Queue.__repr__: the items in logical order
Queue_repr(buf, head, size) ==
    [i \in 1..size |-> buf[((head + i - 1) % Len(buf)) + 1]]

\* bookkeeping shared by the Queue calls: r is the result of the call
QueRecord(op, val, r) ==
    /\ q_buf' = r.buf
    /\ q_head' = r.head
    /\ q_tail' = r.tail
    /\ q_size' = r.size
    /\ q_last' = [op |-> op, value |-> val, outcome |-> r.outcome, ret |-> r.ret,
                  oldest |-> IF q_ref = <<>> THEN None ELSE Head(q_ref)]
    /\ q_pre' = [buf |-> q_buf, head |-> q_head, tail |-> q_tail, size |-> q_size]
    /\ UNCHANGED <<selVars, arrVars, stkVars, lstVars, treeVars, matVars, live>>

QueEnqueue ==
    /\ live = "que"
    /\ \E val \in QValues :
        LET r == Queue_enqueue(q_buf, q_head, q_tail, q_size, val)
        IN  /\ QueRecord("enqueue", val, r)
            /\ q_ref' = IF r.outcome = "ok" THEN Append(q_ref, val) ELSE q_ref

QueDequeue ==
    /\ live = "que"
    /\ LET r == Queue_dequeue(q_buf, q_head, q_tail, q_size)
       IN  /\ QueRecord("dequeue", None, r)
           /\ q_ref' = IF r.outcome = "ok" THEN Tail(q_ref) ELSE q_ref

\* Queue(capacity)
InitQueue ==
    /\ \E capacity \in 0..MaxQCap : q_buf = [i \in 1..capacity |-> None]
    /\ q_head = 0
    /\ q_tail = 0
    /\ q_size = 0
    /\ q_last = [op |-> "init", value |-> None, outcome |-> "ok", ret |-> None,
                 oldest |-> None]
    /\ q_pre = [buf |-> q_buf, head |-> 0, tail |-> 0, size |-> 0]
    /\ q_ref = <<>>
    /\ SelIdle /\ ArrIdle /\ StkIdle /\ LstIdle /\ TreeIdle /\ MatIdle
    /\ live = "que"

NextQueue == QueEnqueue \/ QueDequeue

SpecQueue == InitQueue /\ [][NextQueue]_vars

\* C7: whatever the interleaving of enqueues and dequeues, wrap-around
\* included, a successful dequeue returns the oldest value enqueued and not
\* yet dequeued, the queue holds exactly the values enqueued and not yet
\* dequeued in their order, and len() is their number.
C7_QueueFifo ==
    /\ (q_last.op = "dequeue" /\ q_last.outcome = "ok") => q_last.ret = q_last.oldest
    /\ Queue_len(q_size) = Len(q_ref)
    /\ Len(q_buf) > 0 => Queue_repr(q_buf, q_head, q_size) = q_ref

\* a dequeue after tail has wrapped past the end of the buffer: more values
\* were enqueued than the capacity, and values remain across the wrap
C7_Witness ==
    /\ q_last.op = "dequeue" /\ q_last.outcome = "ok"
    /\ Len(q_buf) = 3
    /\ 0 < q_tail /\ q_tail < q_head
    /\ q_size = 2
    /\ q_last.ret # q_ref[1] /\ q_ref[1] # q_ref[2]

\* C8: enqueue raises OverflowError exactly when size equals the capacity and
\* dequeue raises IndexError exactly when size is 0, wherever head and tail
\* are and also for capacity 0; otherwise the call succeeds.
C8_QueueOutcomes ==
    /\ q_last.op = "enqueue" =>
        q_last.outcome =
            IF q_pre.size = Len(q_pre.buf) THEN "OverflowError" ELSE "ok"
    /\ q_last.op = "dequeue" =>
        q_last.outcome = IF q_pre.size = 0 THEN "IndexError" ELSE "ok"

\* an enqueue refused on a full queue whose head is not at slot 0
C8_Witness ==
    /\ q_last.op = "enqueue" /\ q_last.outcome = "OverflowError"
    /\ q_pre.head > 0 /\ q_pre.head = q_pre.tail
    /\ q_pre.size = Len(q_pre.buf) /\ Len(q_pre.buf) >= 2

\* the buffer indices head, head+1, ..., head+size-1 (mod capacity)
QueueWindow == {(q_head + i) % Len(q_buf) : i \in 0..(q_size - 1)}

\* C17: in every reachable state of a Queue of capacity c > 0, 0 <= size <= c,
\* 0 <= head < c, 0 <= tail < c, tail = (head + size) mod c, and every slot
\* outside the window head..head+size-1 (mod c) holds None: a dequeued slot
\* is cleared before a later enqueue reuses it.
C17_QueueInvariant ==
    Len(q_buf) > 0 =>
        /\ 0 <= q_size /\ q_size <= Len(q_buf)
        /\ 0 <= q_head /\ q_head < Len(q_buf)
        /\ 0 <= q_tail /\ q_tail < Len(q_buf)
        /\ q_tail = (q_head + q_size) % Len(q_buf)
        /\ \A i \in 0..(Len(q_buf) - 1) :
              i \notin QueueWindow => q_buf[i + 1] = None

\* an enqueue into a slot that an earlier dequeue cleared, leaving a window
\* that wraps around the end of the buffer and a cleared slot outside it
C17_Witness ==
    /\ Len(q_buf) = MaxQCap
    /\ q_last.op = "enqueue" /\ q_last.outcome = "ok"
    /\ q_pre.head > q_pre.tail
    /\ q_pre.buf[q_pre.tail + 1] = None
    /\ q_head + q_size > Len(q_buf)
    /\ q_size < Len(q_buf)
    /\ q_buf[q_tail + 1] = None

----------------------------------------------------------------------------
\* datastructures.py: Stack

StkValues == {"a", "b", "c", "d"}

\* what a Stack call returns when it returns nothing
NoValue == "None"

\* list.__getitem__ with an integer index: a negative index counts from the
\* end, an index outside the list raises IndexError
PyGetItem(s, i) ==
    LET j == IF i < 0 THEN i + Len(s) ELSE i
    IN  IF j < 0 \/ j >= Len(s)
        THEN [outcome |-> "IndexError", ret |-> NoValue]
        ELSE [outcome |-> "ok", ret |-> s[j + 1]]

\* Stack.push
Stack_push(s, val) == [s |-> Append(s, val), outcome |-> "ok", ret |-> NoValue]

\* Stack.pop removing the bottom element (list.pop(0))
Stack_pop_bottom(s) ==
    IF s = <<>>
    THEN [s |-> s, outcome |-> "IndexError", ret |-> NoValue]
    ELSE [s |-> Tail(s), outcome |-> "ok", ret |-> Head(s)]

\* Stack.pop
Stack_pop(s) ==
    IF s = <<>>
    THEN [s |-> s, outcome |-> "IndexError", ret |-> NoValue]
    ELSE [s |-> SubSeq(s, 1, Len(s) - 1), outcome |-> "ok", ret |-> s[Len(s)]]

\* Stack.peek answering None on an empty stack
Stack_peek_none(s) ==
    IF s = <<>>
    THEN [s |-> s, outcome |-> "ok", ret |-> NoValue]
    ELSE [s |-> s, outcome |-> "ok", ret |-> s[Len(s)]]

\* Stack.peek: return self._s[-1]
Stack_peek(s) ==
    LET r == PyGetItem(s, -1)
    IN  [s |-> s, outcome |-> r.outcome, ret |-> r.ret]

\* Stack.__len__
Stack_len(s) == Len(s)

\* bookkeeping shared by the Stack calls: r is the result of the call
StkRecord(op, val, r) ==
    /\ stk_s' = r.s
    /\ stk_last' = [op |-> op, value |-> val, outcome |-> r.outcome, ret |-> r.ret,
                    newest |-> IF stk_ref = <<>> THEN NoValue ELSE Head(stk_ref)]
    /\ stk_pre' = stk_s
    /\ stk_prev' = stk_last.op
    /\ UNCHANGED <<selVars, arrVars, queVars, lstVars, treeVars, matVars, live>>

StkPush ==
    /\ live = "stk"
    /\ Len(stk_s) < MaxStack
    /\ \E val \in StkValues :
        /\ StkRecord("push", val, Stack_push(stk_s, val))
        /\ stk_ref' = <<val>> \o stk_ref

StkPop ==
    /\ live = "stk"
    /\ LET r == Stack_pop(stk_s)
       IN  /\ StkRecord("pop", NoValue, r)
           /\ stk_ref' = IF r.outcome = "ok" THEN Tail(stk_ref) ELSE stk_ref

StkPeek ==
    /\ live = "stk"
    /\ StkRecord("peek", NoValue, Stack_peek(stk_s))
    /\ UNCHANGED stk_ref

\* Stack()
InitStack ==
    /\ stk_s = <<>>
    /\ stk_last = [op |-> "init", value |-> NoValue, outcome |-> "ok",
                   ret |-> NoValue, newest |-> NoValue]
    /\ stk_pre = <<>>
    /\ stk_prev = "init"
    /\ stk_ref = <<>>
    /\ SelIdle /\ ArrIdle /\ QueIdle /\ LstIdle /\ TreeIdle /\ MatIdle
    /\ live = "stk"

NextStack == StkPush \/ StkPop \/ StkPeek

SpecStack == InitStack /\ [][NextStack]_vars

\* C9: pop on a non-empty Stack removes and returns the most recently pushed
\* value not yet popped; peek on a non-empty Stack returns that value and
\* leaves contents and length unchanged; the Stack always holds the pushed
\* and not yet popped values, most recent on top.
C9_StackLifo ==
    /\ (stk_last.op = "pop" /\ stk_pre # <<>>) =>
        /\ stk_last.outcome = "ok"
        /\ stk_last.ret = stk_last.newest
        /\ Stack_len(stk_s) = Stack_len(stk_pre) - 1
    /\ (stk_last.op = "peek" /\ stk_pre # <<>>) =>
        /\ stk_last.outcome = "ok"
        /\ stk_last.ret = stk_last.newest
        /\ stk_s = stk_pre
    /\ Stack_len(stk_s) = Len(stk_ref)
    /\ \A i \in 1..Len(stk_ref) : stk_ref[i] = stk_s[Len(stk_s) - i + 1]

\* push a, b, c, d, then pop returned d, and peek returned c
C9_Witness ==
    /\ stk_last.op = "peek" /\ stk_last.outcome = "ok" /\ stk_last.ret = "c"
    /\ stk_prev = "pop"
    /\ stk_s = <<"a", "b", "c">>
    /\ stk_ref = <<"c", "b", "a">>

\* C10: pop and peek on an empty Stack raise IndexError and return no value,
\* whether the Stack is fresh or was emptied by pops.
C10_EmptyStackFails ==
    (stk_last.op \in {"pop", "peek"} /\ stk_pre = <<>>) =>
        /\ stk_last.outcome = "IndexError"
        /\ stk_last.ret = NoValue

\* a peek refused on a Stack that the preceding pop had emptied
C10_Witness ==
    /\ stk_last.op = "peek" /\ stk_pre = <<>>
    /\ stk_prev = "pop"
    /\ stk_last.newest = NoValue
    /\ stk_last.outcome = "IndexError"

----------------------------------------------------------------------------
\* datastructures.py: LinkedList

LValues == 0..MaxLVal

\* the null link
NoNode == <<>>

\* Node(value, nxt); the chain a node heads is the node with its next nested
Node(value, nxt) == <<value, nxt>>

\* while cur and i < pos: cur, i = cur.next, i + 1
RECURSIVE NodeAtLoop(_, _, _)
NodeAtLoop(cur, i, pos) ==
    IF cur # NoNode /\ i < pos THEN NodeAtLoop(cur[2], i + 1, pos)
    ELSE [cur |-> cur, i |-> i]

\* LinkedList._node_at: the node reached and the number of links followed
\* from head to reach it
_node_at(head, pos) ==
    LET r == NodeAtLoop(head, 0, pos)
    IN  IF r.cur = NoNode
        THEN [outcome |-> "IndexError", node |-> NoNode, hops |-> r.i]
        ELSE [outcome |-> "ok", node |-> r.cur, hops |-> r.i]

\* the assignment prev.next = nxt, prev being the node hops links from cur
RECURSIVE SetNext(_, _, _)
SetNext(cur, hops, nxt) ==
    IF hops = 0 THEN Node(cur[1], nxt)
    ELSE Node(cur[1], SetNext(cur[2], hops - 1, nxt))

\* LinkedList.insert
LinkedList_insert(head, pos, value) ==
    IF pos = 0 THEN [head |-> Node(value, head), outcome |-> "ok"]
    ELSE LET prev == _node_at(head, pos - 1)
         IN  IF prev.outcome # "ok"
             THEN [head |-> head, outcome |-> "IndexError"]
             ELSE [head |-> SetNext(head, prev.hops, Node(value, prev.node[2])),
                   outcome |-> "ok"]

\* LinkedList.delete unlinking the node after position pos
LinkedList_delete_next(head, pos) ==
    IF pos = 0
    THEN IF head = NoNode
         THEN [head |-> head, outcome |-> "IndexError"]
         ELSE [head |-> head[2], outcome |-> "ok"]
    ELSE LET prev == _node_at(head, pos)
         IN  IF prev.outcome # "ok" \/ prev.node[2] = NoNode
             THEN [head |-> head, outcome |-> "IndexError"]
             ELSE [head |-> SetNext(head, prev.hops, prev.node[2][2]),
                   outcome |-> "ok"]

\* LinkedList.delete
LinkedList_delete(head, pos) ==
    IF pos = 0
    THEN IF head = NoNode
         THEN [head |-> head, outcome |-> "IndexError"]
         ELSE [head |-> head[2], outcome |-> "ok"]
    ELSE LET prev == _node_at(head, pos - 1)
         IN  IF prev.outcome # "ok"
             THEN [head |-> head, outcome |-> "IndexError"]
             ELSE IF prev.node[2] = NoNode
             THEN [head |-> head, outcome |-> "IndexError"]
             ELSE [head |-> SetNext(head, prev.hops, prev.node[2][2]),
                   outcome |-> "ok"]

\* LinkedList.traverse: the values yielded, in order
RECURSIVE LinkedList_traverse(_)
LinkedList_traverse(cur) ==
    IF cur = NoNode THEN <<>>
    ELSE <<cur[1]>> \o LinkedList_traverse(cur[2])

\* the reference sequence is dropped at the first out-of-bounds call
NoReference == <<>>

\* bookkeeping shared by the LinkedList calls: r is the result of the call,
\* inb whether pos was within the reference sequence's bounds
LstRecord(op, pos, value, r, inb) ==
    /\ ll_head' = r.head
    /\ ll_last' = [op |-> op, pos |-> pos, value |-> value, outcome |-> r.outcome]
    /\ ll_pre' = ll_head
    /\ ll_inb' = (ll_inb /\ inb)
    /\ UNCHANGED <<selVars, arrVars, queVars, stkVars, treeVars, matVars, live>>

\* positions a caller tries: every valid one and one beyond each end
LstPositions == -1..(Len(LinkedList_traverse(ll_head)) + 1)

LstInsert ==
    /\ live = "lst"
    /\ Len(LinkedList_traverse(ll_head)) < MaxList
    /\ \E pos \in LstPositions, value \in LValues :
        LET inb == 0 <= pos /\ pos <= Len(ll_ref)
        IN  /\ LstRecord("insert", pos, value,
                         LinkedList_insert(ll_head, pos, value), inb)
            /\ ll_ref' = IF ll_inb /\ inb
                         THEN SubSeq(ll_ref, 1, pos) \o <<value>>
                              \o SubSeq(ll_ref, pos + 1, Len(ll_ref))
                         ELSE NoReference

LstDelete ==
    /\ live = "lst"
    /\ \E pos \in LstPositions :
        LET inb == 0 <= pos /\ pos < Len(ll_ref)
        IN  /\ LstRecord("delete", pos, None, LinkedList_delete(ll_head, pos), inb)
            /\ ll_ref' = IF ll_inb /\ inb
                         THEN SubSeq(ll_ref, 1, pos)
                              \o SubSeq(ll_ref, pos + 2, Len(ll_ref))
                         ELSE NoReference

\* LinkedList()
InitList ==
    /\ ll_head = NoNode
    /\ ll_last = [op |-> "init", pos |-> 0, value |-> None, outcome |-> "ok"]
    /\ ll_pre = NoNode
    /\ ll_ref = <<>>
    /\ ll_inb = TRUE
    /\ SelIdle /\ ArrIdle /\ QueIdle /\ StkIdle /\ TreeIdle /\ MatIdle
    /\ live = "lst"

NextList == LstInsert \/ LstDelete

SpecList == InitList /\ [][NextList]_vars

\* C11: after any sequence of in-bounds insert and delete calls, traverse()
\* yields the reference sequence: insert(pos, v) puts v at position pos and
\* moves the later values back, delete(pos) removes the value at pos.
C11_ListRefines ==
    ll_inb => LinkedList_traverse(ll_head) = ll_ref

\* deleting position 2 from [0, 1, 2, 3] leaves [0, 1, 3]
C11_Witness ==
    /\ ll_inb
    /\ ll_last.op = "delete" /\ ll_last.pos = 2 /\ ll_last.outcome = "ok"
    /\ LinkedList_traverse(ll_pre) = <<0, 1, 2, 3>>
    /\ LinkedList_traverse(ll_head) = <<0, 1, 3>>

\* C12: insert(pos, value) raises IndexError for every pos outside
\* [0, length] and delete(pos) for every pos outside [0, length-1], negative
\* positions included, on empty and non-empty lists.
C12_ListPositionErrors ==
    LET length == Len(LinkedList_traverse(ll_pre))
    IN  /\ (ll_last.op = "insert" /\ (ll_last.pos < 0 \/ ll_last.pos > length))
            => ll_last.outcome = "IndexError"
        /\ (ll_last.op = "delete" /\ (ll_last.pos < 0 \/ ll_last.pos > length - 1))
            => ll_last.outcome = "IndexError"

----------------------------------------------------------------------------
\* datastructures.py: TreeNode

\* the TreeNode objects; the caller constructs them with distinct values, as
\* the demo does
TreeNodes == 0..(MaxNodes - 1)

\* TreeNode.value
TreeValue(n) == n

RECURSIVE TreeNode_dfs(_, _)
RECURSIVE DfsChildren(_, _, _)

\* for child in self.children: yield from child.dfs()
DfsChildren(ch, kids, i) ==
    IF i > Len(kids) THEN <<>>
    ELSE TreeNode_dfs(ch, kids[i]) \o DfsChildren(ch, kids, i + 1)

\* dfs yielding the node's value after its children's
TreeNode_dfs_post(ch, n) == DfsChildren(ch, ch[n], 1) \o <<TreeValue(n)>>

\* TreeNode.dfs: the values yielded, in order
TreeNode_dfs(ch, n) == <<TreeValue(n)>> \o DfsChildren(ch, ch[n], 1)

\* TreeNode.add_child: the children lists after parent.add_child(child)
TreeNode_add_child(ch, parent, child) ==
    [ch EXCEPT ![parent] = Append(@, child)]

\* number of add_child calls made so far, over nodes 0..n
RECURSIVE EdgeSum(_, _)
EdgeSum(ch, n) == IF n < 0 THEN 0 ELSE Len(ch[n]) + EdgeSum(ch, n - 1)

TreeAddChild ==
    /\ live = "tree"
    /\ EdgeSum(tree_children, MaxNodes - 1) < MaxEdges
    /\ \E parent \in TreeNodes, child \in TreeNodes :
        /\ tree_children' = TreeNode_add_child(tree_children, parent, child)
        /\ tree_last' = [parent |-> parent, child |-> child]
    /\ UNCHANGED <<selVars, arrVars, queVars, stkVars, lstVars, matVars, live>>

\* TreeNode(value) for every node: no children yet
InitTree ==
    /\ tree_children = [n \in TreeNodes |-> <<>>]
    /\ tree_last = [parent |-> -1, child |-> -1]
    /\ SelIdle /\ ArrIdle /\ QueIdle /\ StkIdle /\ LstIdle /\ MatIdle
    /\ live = "tree"

NextTree == TreeAddChild

SpecTree == InitTree /\ [][NextTree]_vars

\* the children of n, as a set
Kids(ch, n) == {ch[n][i] : i \in 1..Len(ch[n])}

\* the nodes reachable from the set S in at most i links, S included
RECURSIVE Closure(_, _, _)
Closure(ch, S, i) ==
    IF i = 0 THEN S
    ELSE Closure(ch, S \cup UNION {Kids(ch, m) : m \in S}, i - 1)

\* the proper descendants of n, and n's subtree
Desc(ch, n) == Closure(ch, Kids(ch, n), MaxNodes)
Subtree(ch, n) == {n} \cup Desc(ch, n)

\* the places where c is listed as a child
ParentSlots(ch, c) ==
    {<<p, i>> \in TreeNodes \X (1..MaxEdges) : i <= Len(ch[p]) /\ ch[p][i] = c}

\* no node is its own ancestor and every node is listed as a child at most once
IsForest(ch) ==
    /\ \A n \in TreeNodes : n \notin Desc(ch, n)
    /\ \A c \in TreeNodes : Cardinality(ParentSlots(ch, c)) <= 1

\* the position at which dfs yields the value of node n
Pos(seq, n) == CHOOSE i \in 1..Len(seq) : seq[i] = TreeValue(n)

\* C13: on a tree (every node attached to at most one parent, no node its own
\* ancestor) dfs() from any node yields the value of every node of its
\* subtree exactly once, each node before its descendants, and the whole
\* subtree of a child before the next child, in the order the children were
\* added.
C13_DfsPreOrder ==
    IsForest(tree_children) =>
        \A r \in TreeNodes :
            LET seq == TreeNode_dfs(tree_children, r)
                sub == Subtree(tree_children, r)
            IN  /\ Len(seq) = Cardinality(sub)
                /\ {seq[i] : i \in 1..Len(seq)} = {TreeValue(n) : n \in sub}
                /\ \A n \in sub : \A d \in Desc(tree_children, n) :
                        Pos(seq, n) < Pos(seq, d)
                /\ \A n \in sub : \A i, j \in 1..Len(tree_children[n]) :
                        i < j =>
                            \A x \in Subtree(tree_children, tree_children[n][i]),
                               y \in Subtree(tree_children, tree_children[n][j]) :
                                Pos(seq, x) < Pos(seq, y)

\* root 0 with children 1 and 2, node 1 with child 3: dfs yields 0, 1, 3, 2
C13_Witness ==
    /\ tree_children = (0 :> <<1, 2>> @@ 1 :> <<3>> @@ 2 :> <<>> @@ 3 :> <<>>)
    /\ IsForest(tree_children)
    /\ TreeNode_dfs(tree_children, 0) = <<0, 1, 3, 2>>

\* C16: after any sequence of add_child calls the node graph has no cycle and
\* every node is a child of at most one parent, listed once.
C16_TreeShape == IsForest(tree_children)

----------------------------------------------------------------------------
\* Array, Queue, Stack and LinkedList side by side: one container is
\* constructed and then used

InitContainers == InitArray \/ InitMatrix \/ InitQueue \/ InitStack \/ InitList

NextContainers ==
    \/ ArrInsert \/ ArrDelete \/ ArrAccess
    \/ MatSet \/ MatGet
    \/ QueEnqueue \/ QueDequeue
    \/ StkPush \/ StkPop \/ StkPeek
    \/ LstInsert \/ LstDelete

SpecContainers == InitContainers /\ [][NextContainers]_vars

\* C14: a call of Array, Stack, Queue or LinkedList that raises IndexError
\* or OverflowError leaves every field of the container as it was before the
\* call.
C14_FailureNoEffect ==
    /\ (live = "arr" /\ arr_last.outcome # "ok") =>
        /\ arr_data = arr_pre.data
        /\ arr_size = arr_pre.size
    /\ (live = "que" /\ q_last.outcome # "ok") =>
        /\ q_buf = q_pre.buf
        /\ q_head = q_pre.head
        /\ q_tail = q_pre.tail
        /\ q_size = q_pre.size
    /\ (live = "stk" /\ stk_last.outcome # "ok") => stk_s = stk_pre
    /\ (live = "lst" /\ ll_last.outcome # "ok") => ll_head = ll_pre

\* an enqueue refused on a full queue whose window wraps around the buffer:
\* the slot at tail still holds the oldest value
C14_Witness ==
    /\ live = "que"
    /\ q_last.op = "enqueue" /\ q_last.outcome = "OverflowError"
    /\ q_pre.head > 0 /\ Len(q_pre.buf) >= 2
    /\ q_last.value # q_pre.buf[q_pre.tail + 1]
    /\ q_buf = q_pre.buf /\ q_size = q_pre.size

----------------------------------------------------------------------------
\* Properties of the selection loops

\* C15: for a non-empty list and a valid k both selection loops end with a
\* returned value and never raise, whatever the order, the duplicates and the
\* random pivots: the window [low, high] never becomes empty, a call that
\* has returned returned an element of the list, and an iteration either
\* returns or makes high - low smaller, so that a window of w+1 elements is
\* left after at most w narrowing iterations and the iteration on a window
\* of one element returns.
C15_Terminates ==
    /\ []((alg \in {"det", "rnd"} /\ ValidRank) =>
            /\ pc \in {"run", "done"}
            /\ 0 <= high - low /\ high - low <= Len(a0) - 1
            /\ pc = "done" => \E i \in 1..Len(a0) : ret = a0[i])
    /\ [][(alg \in {"det", "rnd"} /\ ValidRank /\ pc = "run") =>
            /\ pc' \in {"run", "done"}
            /\ pc' = "run" => high' - low' < high - low
            /\ low = high => pc' = "done"]_vars

\* a randomized selection that narrowed the window from both sides before
\* it returned
C15_Witness ==
    /\ alg = "rnd" /\ pc = "done" /\ ValidRank
    /\ 0 < low /\ high < Len(a0) - 1 /\ low < high
    /\ Len(a0) = 6

\* the candidate indices _median_of_medians starts from
Candidates == [i \in 1..(high - low + 1) |-> low + i - 1]

\* C18: on a non-empty range low..high of the list _median_of_medians
\* returns an index i with low <= i <= high; a reduction round replaces
\* m > 5 candidates by ceil(m/5) group medians and the rounds stop with
\* between 1 and 5 candidates of the range; so the pivot index
\* select_deterministic passes to _partition lies in low..high.
C18_MomInRange ==
    /\ alg = "mom" =>
        /\ pc = "done" => (low <= ret /\ ret <= high)
        /\ Len(Candidates) > GroupSize =>
              Len(GroupMedians(a, Candidates, 0))
                  = (Len(Candidates) + GroupSize - 1) \div GroupSize
        /\ LET rest == Reduce(a, Candidates)
           IN  /\ 1 <= Len(rest) /\ Len(rest) <= GroupSize
               /\ \A i \in 1..Len(rest) : low <= rest[i] /\ rest[i] <= high
    /\ (alg = "det" /\ pc = "run" /\ low < high) =>
        /\ low <= _median_of_medians(a, low, high)
        /\ _median_of_medians(a, low, high) <= high

\* a call on a range of more than five elements that starts after index 0
\* and returns an index inside the range whose value is not the first one
C18_Witness ==
    /\ alg = "mom" /\ pc = "done"
    /\ low > 0 /\ high - low + 1 > GroupSize
    /\ low < ret /\ ret < high
    /\ a[ret + 1] # a[low + 1]

\* C19: loop invariant of both selection functions for a valid k on a
\* non-empty list: at the start of every iteration
\* 0 <= low <= k <= high <= len(a)-1, every element left of the window is
\* <= every element of the window, and every element of the window is <=
\* every element right of it.
C19_LoopInvariant ==
    (alg \in {"det", "rnd"} /\ ValidRank /\ pc = "run") =>
        /\ 0 <= low /\ low <= k /\ k <= high /\ high <= Len(a) - 1
        /\ \A i \in 0..(low - 1) : \A j \in low..high : a[i + 1] <= a[j + 1]
        /\ \A i \in low..high : \A j \in (high + 1)..(Len(a) - 1) :
              a[i + 1] <= a[j + 1]

\* the start of an iteration after the window was narrowed from both sides,
\* with a smaller value left of it and a larger value right of it
C19_Witness ==
    /\ alg \in {"det", "rnd"} /\ ValidRank /\ pc = "run"
    /\ 0 < low /\ low < high /\ high < Len(a) - 1
    /\ a # a0
    /\ a[low] < a[high + 2]

\* number of indices i of lo..hi with s[i] = v
Count(s, lo, hi, v) == Cardinality({i \in lo..hi : s[i + 1] = v})

\* C20: _partition only permutes a[low..high]: the length of a and every
\* element below low or above high are unchanged, and every value occurs in
\* a[low..high] as often after the call as before it; so both selection
\* functions leave a as a permutation of their input.
C20_PartitionFrame ==
    /\ (alg = "part" /\ pc = "done") =>
        /\ Len(a) = Len(a0)
        /\ \A i \in 0..(Len(a0) - 1) :
              (i < low \/ i > high) => a[i + 1] = a0[i + 1]
        /\ \A v \in 0..MaxVal : Count(a, low, high, v) = Count(a0, low, high, v)
    /\ alg \in {"det", "rnd"} =>
        /\ Len(a) = Len(a0)
        /\ \A v \in 0..MaxVal :
              Count(a, 0, Len(a) - 1, v) = Count(a0, 0, Len(a0) - 1, v)

\* a call on a range strictly inside the list that moved elements
C20_Witness ==
    /\ alg = "part" /\ pc = "done"
    /\ 0 < low /\ low < high /\ high < Len(a0) - 1
    /\ a # a0
    /\ low < ret /\ ret < high

====
